---- MODULE Spec2Model ----
(***************************************************************************)
(* A model of core/context.go: the Context type, its property store, its   *)
(* location slot, its privilege slot, forking (SubContext) and spans.      *)
(* Goroutines call the methods of published contexts concurrently; every   *)
(* method is split at its synchronisation points (sync.RWMutex calls, the  *)
(* atomic.Value load/store, each map access).                              *)
(***************************************************************************)
EXTENDS Integers, Sequences, FiniteSets, TLC

\* ------------------------------------------------------------------ bounds
NumProcs == 2    \* goroutines
MaxCtx == 3      \* Context objects ever allocated (the root and its forks)
MaxCalls == 3    \* method calls started in one run of Spec (every method)
MaxFocus == 4    \* method calls started in one run of a specification of fewer methods

Procs == 1..NumProcs
Ctxs == 1..MaxCtx

\* ----------------------------------------------------------- value domains
Keys == {"k1", "k2"}             \* property names
Vals == {"v1", "v2"}             \* property values (non-nil interface{} values)
Nil == "nil"                     \* the nil interface{} / nil pointer
LogKeys == {"appId", "lk"}       \* logProps names
Prefixes == {"app"}              \* constructor argument
EmptyString == ""
Regions == {EmptyString, "R", "R2"}   \* region strings, the zero string included
Locs == {"L1", "L2"}             \* non-nil *Location values
NoValue == "novalue"             \* an atomic.Value nothing was stored in
OpNames == {"op1", "op2"}        \* span operation names
NoGrant == "no grant"
NilTracer == "nil"
NilLogger == "nil"
NilContext == 0                  \* a nil *Context
Levels == {"ANYWARN", "NOTHING"} \* LogLevel values
Args == {<<"a1">>}               \* the variadic arguments of a Log call
NoOp == "no op"                  \* a logger call that was passed no operation name

VARIABLES
    alloc,      \* number of Context objects allocated so far (objects 1..alloc)
    live,       \* contexts returned to a caller (any goroutine may use them)
    id,         \* Context.id: << >> is the empty string, <<n>> the n-th UUID
    props,      \* Context.props: the map object it refers to, or NilRef
    logProps,   \* Context.logProps: the map object it refers to, or NilRef
    mapv,       \* the contents of each map object: a function from keys to values
    privilege,  \* Context.privilege
    location,   \* Context.location (atomic.Value): NoValue, Nil or a Loc
    fields,     \* the exported fields SubContext copies
    rw,         \* the embedded sync.RWMutex: [w, r] sets of goroutines
    nextUUID,   \* the id generator's state
    fatal,      \* the runtime threw (concurrent map access): the process is gone
    pc,         \* each goroutine's position
    fr,         \* each goroutine's arguments and locals
    ret,        \* the call that returned in the last step, and what it returned
    ncalls,     \* calls started
    budget,     \* calls the run may start
    tracerStart, \* per context, the opNames Tracer.StartSpan received with it
    tracerStop,  \* per context, the number of Tracer.StopSpan calls with it
    logged,     \* the calls made to loggers, in order: the logger and what it received
    snap,       \* history: the (props, privilege) its parent had during p's fork
    lastAdd,    \* history: per context and key, the value of the last AddProp write
    inherited,  \* history: per context and key, the value SubContext copied in
    locSet,     \* history: contexts SetLoc was called on
    stored,     \* history: per context, the values SetLoc stored and the last one
    lastGrant   \* history: per context, the region of the last grantPrivilege
                \* not followed by a revokePrivilege, or NoGrant

heap == <<alloc, live, id, props, logProps, mapv, privilege, location, fields>>
sched == <<pc, fr, ret, ncalls, budget>>
trace == <<tracerStart, tracerStop, logged>>
hist == <<lastAdd, inherited, locSet, stored, lastGrant>>
vars == <<heap, rw, nextUUID, fatal, sched, trace, snap, hist>>

\* --------------------------------------------------------------- Go values
\* A Go map value is a reference to a map object, or nil.  make(map) returns
\* a new object: the one init makes for field f of context c is <<c, f>>.
NilRef == <<0, "nil">>
Refs == Ctxs \X {"props", "logProps"}
MakeMap(c, f) == <<c, f>>
Empty == << >>

\* m[k] as an expression: the zero value (nil) for a missing key or a nil map.
MapGet(m, k) == IF m # NilRef /\ k \in DOMAIN mapv[m] THEN mapv[m][k] ELSE Nil

\* An assignment that keeps the value of a key the map already holds.
MapSetKeepOld(kv, k, v) ==
    [x \in (DOMAIN kv) \cup {k} |-> IF x \in DOMAIN kv THEN kv[x] ELSE v]

\* An assignment that replaces the map by the one entry.
MapSetOnly(kv, k, v) == [x \in {k} |-> v]

\* The contents of a map object after m[k] = v: k inserted or overwritten.
MapSet(kv, k, v) == [x \in (DOMAIN kv) \cup {k} |-> IF x = k THEN v ELSE kv[x]]

\* The keys of a map (none for a nil map).
MapKeys(m) == IF m = NilRef THEN {} ELSE DOMAIN mapv[m]

\* The zero value of the exported fields of a Context.
ZeroFields ==
    [Verbosity |-> "zero", ReadKey |-> "", WriteKey |-> "",
     LogAccumulator |-> "nil", LogAccumulatorLevel |-> "zero",
     LogHook |-> "nil", PointHook |-> "nil", Logger |-> NilLogger,
     App |-> "nil", Tracer |-> NilTracer, Ctx |-> "nil"]

\* UUID(): a fresh, non-empty string on every call; n is the generator's state.
UUID(n) == <<n>>

\* A Store that keeps the value the slot already holds.
StoreLocOnce(old, loc) == IF old = NoValue THEN loc ELSE old

\* c.location.Store(loc): the slot holds loc, whatever it held.
StoreLoc(old, loc) == loc

\* A GetLoc whose type assertion never succeeds.
GetLocNotOk(c) == Nil

\* c.location.Load().(*Location), and nil when the assertion fails.
GetLoc(c) == IF location[c] = NoValue THEN Nil ELSE location[c]

\* c.privilege == region
isPrivileged(c, region) == privilege[c] = region

\* c.props[prop]
Prop(c, prop) == MapGet(props[c], prop)

\* ctx.logProps[name]
LogValue(c, name) == MapGet(logProps[c], name)

\* An init that assigns no id.
InitIdUnset(n) == << >>

\* Context.init: the id it assigns, and a map made only when it is nil.
InitId(n) == UUID(n)
InitMap(m, c, f) == IF m = NilRef THEN MakeMap(c, f) ELSE m

\* ------------------------------------------------------------ sync.RWMutex
\* rw[c].w: the goroutine that holds the writer mutex (it waits for the
\* readers to leave, then owns the lock); rw[c].r: the goroutines read-locked.
\* A reader cannot enter while a writer holds or waits.
\* A writer that does not wait for the readers to leave.
WriterNoWait(c) == TRUE

CanRLock(c) == rw[c].w = {}
CanLock(c) == rw[c].w = {}
WriterMayEnter(c) == rw[c].r = {}

NoFrame ==
    [c |-> 0, k |-> "", v |-> "", sub |-> 0, done |-> {}, span |-> FALSE,
     raced |-> FALSE, got |-> "", is |-> FALSE]
NoRet ==
    [op |-> "none", p |-> 0, c |-> 0, k |-> "", val |-> "", is |-> FALSE, ctx |-> 0,
     id |-> << >>, args |-> << >>]

\* ------------------------------------------------------------ constructors
\* newContext (and init, which it calls): the object it returns, the first
\* the process allocates, and the contents of the two maps made for it.
newContext(appId) ==
    [id |-> InitId(1),
     props |-> InitMap(NilRef, 1, "props"),
     logProps |-> InitMap(NilRef, 1, "logProps"),
     propsKV |-> Empty,
     logPropsKV |-> MapSet(Empty, "appId", appId),
     privilege |-> EmptyString,
     location |-> NoValue,
     fields |-> [ZeroFields EXCEPT !.Verbosity = "DefaultVerbosity",
                                   !.LogAccumulatorLevel = "ANYWARN",
                                   !.Ctx = "Background"]]

NewContext(prefix) == newContext(prefix)

TestContext(prefix) == newContext(prefix)

\* A BenchContext that sets none of the three fields.
BenchContextPlain(appId) == newContext(appId)

BenchContext(appId) ==
    LET ctx == newContext(appId)
    IN  [ctx EXCEPT !.fields = [@ EXCEPT !.Verbosity = "NOTHING",
                                         !.Logger = "BenchLogger",
                                         !.LogAccumulatorLevel = "NOTHING"]]

Constructed ==
    UNION {{NewContext(a), TestContext(a), BenchContext(a)} : a \in Prefixes}

\* A constructed context to whose exported fields the caller has assigned its
\* collaborators (the package has no setter: they are attached by assignment)
\* before handing it out; a Logger a constructor attached is kept.
WithCollaborators(obj) ==
    [obj EXCEPT !.fields = [@ EXCEPT !.App = "A1", !.LogHook = "H1",
                                     !.PointHook = "P1", !.LogAccumulator = "Acc1",
                                     !.Logger = IF @ = NilLogger THEN "Lg1" ELSE @]]

\* var NoContext = &Context{}: the zero Context; no constructor and no init
\* has run on it, so its id is empty and its two maps are nil.
NoContext ==
    [id |-> << >>,
     props |-> NilRef,
     logProps |-> NilRef,
     propsKV |-> Empty,
     logPropsKV |-> Empty,
     privilege |-> EmptyString,
     location |-> NoValue,
     fields |-> ZeroFields]

\* The state after construction: one root context, made by a constructor, to
\* which the caller has attached a Tracer or not, handed to the goroutines,
\* which may start b calls.
Root(objs, tracers, b) ==
    /\ nextUUID = 2
    /\ budget = b
    /\ \E obj \in objs, tr \in tracers :
        /\ alloc = 1
        /\ live = {1}
        /\ id = [c \in Ctxs |-> IF c = 1 THEN obj.id ELSE << >>]
        /\ props = [c \in Ctxs |-> IF c = 1 THEN obj.props ELSE NilRef]
        /\ logProps = [c \in Ctxs |-> IF c = 1 THEN obj.logProps ELSE NilRef]
        /\ mapv = [r \in Refs |->
                     IF r = obj.props THEN obj.propsKV
                     ELSE IF r = obj.logProps THEN obj.logPropsKV ELSE Empty]
        /\ privilege = [c \in Ctxs |-> IF c = 1 THEN obj.privilege ELSE EmptyString]
        /\ location = [c \in Ctxs |-> IF c = 1 THEN obj.location ELSE NoValue]
        /\ fields = [c \in Ctxs |->
                       IF c = 1 THEN [obj.fields EXCEPT !.Tracer = tr] ELSE ZeroFields]
    /\ rw = [c \in Ctxs |-> [w |-> {}, r |-> {}]]
    /\ fatal = FALSE
    /\ pc = [p \in Procs |-> "idle"]
    /\ fr = [p \in Procs |-> NoFrame]
    /\ ret = NoRet
    /\ ncalls = 0
    /\ tracerStart = [c \in Ctxs |-> << >>]
    /\ tracerStop = [c \in Ctxs |-> 0]
    /\ logged = << >>
    /\ snap = [p \in Procs |-> {}]
    /\ lastAdd = [c \in Ctxs |-> << >>]
    /\ inherited = [c \in Ctxs |-> << >>]
    /\ locSet = {}
    /\ stored = [c \in Ctxs |-> [all |-> {}, last |-> NoValue]]
    /\ lastGrant = [c \in Ctxs |-> NoGrant]

Init == Root(Constructed, {NilTracer, "T1"}, MaxCalls)

\* ------------------------------------------------------------ bookkeeping
ForkPcs == {"sc_rlock", "sc_new", "sc_loc", "sc_init", "sc_props", "sc_logprops",
            "sc_runlock"}

\* History of a fork in progress: every (props, privilege) its parent has had
\* since SubContext was called.
SnapUpdate ==
    snap' = [q \in Procs |->
               IF pc'[q] \in ForkPcs
               THEN (IF pc[q] \in ForkPcs THEN snap[q] ELSE {})
                    \cup {<<IF props'[fr'[q].c] = NilRef THEN Empty
                             ELSE mapv'[props'[fr'[q].c]],
                            privilege'[fr'[q].c]>>}
               ELSE {}]

At(p, label) == ~fatal /\ pc[p] = label
CanCall(p) == ~fatal /\ pc[p] = "idle" /\ ncalls < budget

Begin(p, label, frame) ==
    /\ pc' = [pc EXCEPT ![p] = label]
    /\ fr' = [fr EXCEPT ![p] = frame]
    /\ ret' = NoRet
    /\ ncalls' = ncalls + 1
    /\ UNCHANGED budget

Goto(p, label) ==
    /\ pc' = [pc EXCEPT ![p] = label]
    /\ ret' = NoRet
    /\ UNCHANGED <<ncalls, budget>>

Return(p, r) ==
    /\ pc' = [pc EXCEPT ![p] = "idle"]
    /\ fr' = [fr EXCEPT ![p] = NoFrame]
    /\ ret' = [r EXCEPT !.p = p]
    /\ UNCHANGED <<ncalls, budget>>

\* A run-time panic in goroutine p (assignment to entry in nil map) inside a
\* method called on c: the method does not return normally.  The panic
\* unwinds to the caller, which recovers from it and goes on, or does not, and
\* the process dies.  No deferred call of the method runs: it has none.
Panic(p, c) ==
    /\ Return(p, [NoRet EXCEPT !.op = "panic", !.c = c])
    /\ fatal' \in BOOLEAN

\* A read lock that neither waits nor registers the reader.
RLockNoop(p, c) == rw' = rw

\* A read unlock that leaves the reader registered.
RUnlockNoop(p, c) == rw' = rw

\* sync.RWMutex operations on context c by goroutine p.
RLock(p, c) == CanRLock(c) /\ rw' = [rw EXCEPT ![c].r = @ \cup {p}]
RUnlock(p, c) == rw' = [rw EXCEPT ![c].r = @ \ {p}]
LockBegin(p, c) == CanLock(c) /\ rw' = [rw EXCEPT ![c].w = {p}]
Unlock(p, c) == rw' = [rw EXCEPT ![c].w = {}]

\* ------------------------------------------------------------------- Prop
Call_Prop(p) ==
    /\ CanCall(p)
    /\ \E c \in live, k \in Keys :
         Begin(p, "prop_rlock", [NoFrame EXCEPT !.c = c, !.k = k])
    /\ UNCHANGED <<heap, rw, nextUUID, fatal, trace, hist>>
    /\ SnapUpdate

Prop_RLock(p) ==
    /\ At(p, "prop_rlock")
    /\ RLock(p, fr[p].c)
    /\ Goto(p, "prop_read")
    /\ UNCHANGED <<heap, fr, nextUUID, fatal, trace, hist>>
    /\ SnapUpdate

Prop_Read(p) ==
    /\ At(p, "prop_read")
    /\ fr' = [fr EXCEPT ![p].got = Prop(fr[p].c, fr[p].k)]
    /\ Goto(p, "prop_runlock")
    /\ UNCHANGED <<heap, rw, nextUUID, fatal, trace, hist>>
    /\ SnapUpdate

Prop_RUnlock(p) ==
    /\ At(p, "prop_runlock")
    /\ RUnlock(p, fr[p].c)
    /\ Return(p, [NoRet EXCEPT !.op = "Prop", !.c = fr[p].c, !.k = fr[p].k,
                               !.val = fr[p].got])
    /\ UNCHANGED <<heap, nextUUID, fatal, trace, hist>>
    /\ SnapUpdate

\* ---------------------------------------------------------------- AddProp
\* SetValue and AddValue only call AddProp.
Call_AddProp(p) ==
    /\ CanCall(p)
    /\ \E c \in live, k \in Keys, v \in Vals :
         Begin(p, "add_lock", [NoFrame EXCEPT !.c = c, !.k = k, !.v = v])
    /\ UNCHANGED <<heap, rw, nextUUID, fatal, trace, hist>>
    /\ SnapUpdate

AddProp_Lock(p) ==
    /\ At(p, "add_lock")
    /\ LockBegin(p, fr[p].c)
    /\ Goto(p, "add_wait")
    /\ UNCHANGED <<heap, fr, nextUUID, fatal, trace, hist>>
    /\ SnapUpdate

AddProp_Locked(p) ==
    /\ At(p, "add_wait")
    /\ WriterMayEnter(fr[p].c)
    /\ Goto(p, "add_write")
    /\ UNCHANGED <<heap, rw, fr, nextUUID, fatal, trace, hist>>
    /\ SnapUpdate

\* c.props[prop] = val; on a nil map the assignment panics, the lock held.
AddProp_Write(p) ==
    /\ At(p, "add_write")
    /\ \/ /\ props[fr[p].c] # NilRef
          /\ mapv' = [mapv EXCEPT ![props[fr[p].c]] = MapSet(@, fr[p].k, fr[p].v)]
          /\ lastAdd' = [lastAdd EXCEPT ![fr[p].c] = (fr[p].k :> fr[p].v) @@ @]
          /\ Goto(p, "add_unlock")
          /\ UNCHANGED <<fr, fatal>>
       \/ /\ props[fr[p].c] = NilRef
          /\ Panic(p, fr[p].c)
          /\ UNCHANGED <<mapv, lastAdd>>
    /\ UNCHANGED <<alloc, live, id, props, logProps, privilege, location, fields>>
    /\ UNCHANGED <<rw, nextUUID, trace, inherited, locSet, stored, lastGrant>>
    /\ SnapUpdate

AddProp_Unlock(p) ==
    /\ At(p, "add_unlock")
    /\ Unlock(p, fr[p].c)
    /\ Return(p, [NoRet EXCEPT !.op = "AddProp", !.c = fr[p].c])
    /\ UNCHANGED <<heap, nextUUID, fatal, trace, hist>>
    /\ SnapUpdate

\* ------------------------------------------- grantPrivilege, revokePrivilege
Call_grantPrivilege(p) ==
    /\ CanCall(p)
    /\ \E c \in live, region \in Regions :
         Begin(p, "gr_lock", [NoFrame EXCEPT !.c = c, !.k = region])
    /\ UNCHANGED <<heap, rw, nextUUID, fatal, trace, hist>>
    /\ SnapUpdate

grantPrivilege_Lock(p) ==
    /\ At(p, "gr_lock")
    /\ LockBegin(p, fr[p].c)
    /\ Goto(p, "gr_wait")
    /\ UNCHANGED <<heap, fr, nextUUID, fatal, trace, hist>>
    /\ SnapUpdate

grantPrivilege_Locked(p) ==
    /\ At(p, "gr_wait")
    /\ WriterMayEnter(fr[p].c)
    /\ Goto(p, "gr_write")
    /\ UNCHANGED <<heap, rw, fr, nextUUID, fatal, trace, hist>>
    /\ SnapUpdate

grantPrivilege_Write(p) ==
    /\ At(p, "gr_write")
    /\ privilege' = [privilege EXCEPT ![fr[p].c] = fr[p].k]
    /\ lastGrant' = [lastGrant EXCEPT ![fr[p].c] = fr[p].k]
    /\ Goto(p, "gr_unlock")
    /\ UNCHANGED <<alloc, live, id, props, logProps, mapv, location, fields>>
    /\ UNCHANGED <<rw, fr, nextUUID, fatal, trace, lastAdd, inherited, locSet, stored>>
    /\ SnapUpdate

grantPrivilege_Unlock(p) ==
    /\ At(p, "gr_unlock")
    /\ Unlock(p, fr[p].c)
    /\ Return(p, [NoRet EXCEPT !.op = "grantPrivilege", !.c = fr[p].c, !.k = fr[p].k])
    /\ UNCHANGED <<heap, nextUUID, fatal, trace, hist>>
    /\ SnapUpdate

Call_revokePrivilege(p) ==
    /\ CanCall(p)
    /\ \E c \in live : Begin(p, "rv_lock", [NoFrame EXCEPT !.c = c])
    /\ UNCHANGED <<heap, rw, nextUUID, fatal, trace, hist>>
    /\ SnapUpdate

revokePrivilege_Lock(p) ==
    /\ At(p, "rv_lock")
    /\ LockBegin(p, fr[p].c)
    /\ Goto(p, "rv_wait")
    /\ UNCHANGED <<heap, fr, nextUUID, fatal, trace, hist>>
    /\ SnapUpdate

revokePrivilege_Locked(p) ==
    /\ At(p, "rv_wait")
    /\ WriterMayEnter(fr[p].c)
    /\ Goto(p, "rv_write")
    /\ UNCHANGED <<heap, rw, fr, nextUUID, fatal, trace, hist>>
    /\ SnapUpdate

revokePrivilege_Write(p) ==
    /\ At(p, "rv_write")
    /\ privilege' = [privilege EXCEPT ![fr[p].c] = EmptyString]
    /\ lastGrant' = [lastGrant EXCEPT ![fr[p].c] = NoGrant]
    /\ Goto(p, "rv_unlock")
    /\ UNCHANGED <<alloc, live, id, props, logProps, mapv, location, fields>>
    /\ UNCHANGED <<rw, fr, nextUUID, fatal, trace, lastAdd, inherited, locSet, stored>>
    /\ SnapUpdate

revokePrivilege_Unlock(p) ==
    /\ At(p, "rv_unlock")
    /\ Unlock(p, fr[p].c)
    /\ Return(p, [NoRet EXCEPT !.op = "revokePrivilege", !.c = fr[p].c])
    /\ UNCHANGED <<heap, nextUUID, fatal, trace, hist>>
    /\ SnapUpdate

\* ------------------------------------------------------------ isPrivileged
Call_isPrivileged(p) ==
    /\ CanCall(p)
    /\ \E c \in live, region \in Regions :
         Begin(p, "ip_rlock", [NoFrame EXCEPT !.c = c, !.k = region])
    /\ UNCHANGED <<heap, rw, nextUUID, fatal, trace, hist>>
    /\ SnapUpdate

isPrivileged_RLock(p) ==
    /\ At(p, "ip_rlock")
    /\ RLock(p, fr[p].c)
    /\ Goto(p, "ip_read")
    /\ UNCHANGED <<heap, fr, nextUUID, fatal, trace, hist>>
    /\ SnapUpdate

isPrivileged_Read(p) ==
    /\ At(p, "ip_read")
    /\ fr' = [fr EXCEPT ![p].is = isPrivileged(fr[p].c, fr[p].k)]
    /\ Goto(p, "ip_runlock")
    /\ UNCHANGED <<heap, rw, nextUUID, fatal, trace, hist>>
    /\ SnapUpdate

isPrivileged_RUnlock(p) ==
    /\ At(p, "ip_runlock")
    /\ RUnlock(p, fr[p].c)
    /\ Return(p, [NoRet EXCEPT !.op = "isPrivileged", !.c = fr[p].c,
                               !.k = fr[p].k, !.is = fr[p].is])
    /\ UNCHANGED <<heap, nextUUID, fatal, trace, hist>>
    /\ SnapUpdate

\* ------------------------------------------------- SetLoc, GetLoc, Location
\* The caller's SetLoc: one atomic Store, then the argument is returned.  The
\* argument is a *Location, nil or not; Store keeps a nil pointer as a value.
SetLoc(p) ==
    /\ CanCall(p)
    /\ \E c \in live, loc \in Locs \cup {Nil} :
        /\ location' = [location EXCEPT ![c] = StoreLoc(@, loc)]
        /\ locSet' = locSet \cup {c}
        /\ stored' = [stored EXCEPT ![c] = [all |-> @.all \cup {loc}, last |-> loc]]
        /\ pc' = pc
        /\ fr' = fr
        /\ ret' = [NoRet EXCEPT !.p = p, !.op = "SetLoc", !.c = c, !.val = loc]
    /\ ncalls' = ncalls + 1
    /\ UNCHANGED budget
    /\ UNCHANGED <<alloc, live, id, props, logProps, mapv, privilege, fields>>
    /\ UNCHANGED <<rw, nextUUID, fatal, trace, lastAdd, inherited, lastGrant>>
    /\ SnapUpdate

\* GetLoc, and Location, which only calls it: one atomic Load.
GetLoc_Call(p) ==
    /\ CanCall(p)
    /\ \E c \in live :
         ret' = [NoRet EXCEPT !.p = p, !.op = "GetLoc", !.c = c, !.val = GetLoc(c)]
    /\ ncalls' = ncalls + 1
    /\ UNCHANGED budget
    /\ UNCHANGED <<heap, rw, nextUUID, fatal, pc, fr, trace, hist>>
    /\ SnapUpdate

\* --------------------------------------------------------------------- Id
Id(p) ==
    /\ CanCall(p)
    /\ \E c \in live :
         ret' = [NoRet EXCEPT !.p = p, !.op = "Id", !.c = c, !.id = id[c]]
    /\ ncalls' = ncalls + 1
    /\ UNCHANGED budget
    /\ UNCHANGED <<heap, rw, nextUUID, fatal, pc, fr, trace, hist>>
    /\ SnapUpdate

\* ------------------------------------------------------------ SetLogValue
\* What a Go map can hold after an unsynchronised access to it overlapped a
\* write: the entries it would have held, or any part of them (the runtime
\* may also throw "concurrent map writes").
AnyPartOf(kv) == {[x \in D |-> kv[x]] : D \in SUBSET (DOMAIN kv)}

\* The goroutines in the middle of an access to logProps of c that conflicts
\* with a new access by p (a write conflicts with all, a read with writes).
Conflicting(p, c, write) ==
    {q \in Procs \ {p} :
        /\ fr[q].c = c
        /\ \/ pc[q] = "slv_write"
           \/ write /\ pc[q] = "sc_logprops"}

\* p starts an access with locals f: it and those it overlaps have raced.
StartAccess(p, f, c, write) ==
    fr' = [q \in Procs |->
             IF q = p THEN [f EXCEPT !.raced = Conflicting(p, c, write) # {}]
             ELSE IF q \in Conflicting(p, c, write) THEN [fr[q] EXCEPT !.raced = TRUE]
             ELSE fr[q]]

\* SetLogValue takes no lock: the map write begins as soon as it is called.
Call_SetLogValue(p) ==
    /\ CanCall(p)
    /\ \E c \in live, k \in LogKeys, v \in Vals :
        /\ StartAccess(p, [NoFrame EXCEPT !.c = c, !.k = k, !.v = v], c, TRUE)
        /\ pc' = [pc EXCEPT ![p] = "slv_write"]
    /\ ret' = NoRet
    /\ ncalls' = ncalls + 1
    /\ UNCHANGED budget
    /\ UNCHANGED <<heap, rw, nextUUID, fatal, trace, hist>>
    /\ SnapUpdate

\* A SetLogValue that writes only when nobody holds the lock of c.
SetLogValueUnderLock(c) == rw[c].w = {} /\ rw[c].r = {}

\* SetLogValue calls neither Lock nor RLock: its write waits for nothing.
SetLogValueMayWrite(c) == TRUE

\* ctx.logProps[name] = val; on a nil map the assignment panics.
SetLogValue_Write(p) ==
    /\ At(p, "slv_write")
    /\ SetLogValueMayWrite(fr[p].c)
    /\ \/ /\ logProps[fr[p].c] # NilRef
          /\ \/ /\ ~fr[p].raced
                /\ mapv' = [mapv EXCEPT
                              ![logProps[fr[p].c]] = MapSet(@, fr[p].k, fr[p].v)]
                /\ UNCHANGED fatal
             \/ /\ fr[p].raced
                /\ \E kv \in AnyPartOf(MapSet(mapv[logProps[fr[p].c]],
                                              fr[p].k, fr[p].v)) :
                      mapv' = [mapv EXCEPT ![logProps[fr[p].c]] = kv]
                /\ UNCHANGED fatal
             \/ /\ fr[p].raced
                /\ fatal' = TRUE
                /\ UNCHANGED mapv
          /\ Return(p, [NoRet EXCEPT !.op = "SetLogValue", !.c = fr[p].c])
       \/ /\ logProps[fr[p].c] = NilRef
          /\ Panic(p, fr[p].c)
          /\ UNCHANGED mapv
    /\ UNCHANGED <<alloc, live, id, props, logProps, privilege, location, fields>>
    /\ UNCHANGED <<rw, nextUUID, trace, hist>>
    /\ SnapUpdate

\* ------------------------------------------------------------- SubContext
\* A composite literal that names no field.
SubFieldsZero(c) == ZeroFields

\* The composite literal of SubContext: the exported fields of the new object.
SubFields(c) ==
    [Verbosity |-> fields[c].Verbosity,
     ReadKey |-> fields[c].ReadKey,
     WriteKey |-> fields[c].WriteKey,
     LogAccumulator |-> fields[c].LogAccumulator,
     LogAccumulatorLevel |-> fields[c].LogAccumulatorLevel,
     LogHook |-> fields[c].LogHook,
     PointHook |-> fields[c].PointHook,
     Logger |-> fields[c].Logger,
     App |-> fields[c].App,
     Ctx |-> fields[c].Ctx,
     Tracer |-> fields[c].Tracer]

\* A composite literal that leaves privilege out.
SubPrivilegeUnset(c) == EmptyString

\* privilege: ctx.privilege in the composite literal.
SubPrivilege(c) == privilege[c]

\* A SubContext that hands the child its parent's map instead of a new one.
SubPropsShared(c) == props[c]

\* props and logProps are not named in the composite literal: nil maps.
SubProps(c) == NilRef
SubLogProps(c) == NilRef

\* The keys a range loop over m has still to visit.
Remaining(m, done) == MapKeys(m) \ done

\* Forks called that have not allocated their object yet.
Pending == Cardinality({q \in Procs : pc[q] \in {"sc_rlock", "sc_new"}})

Call_SubContext(p) ==
    /\ CanCall(p)
    /\ alloc + Pending < MaxCtx
    /\ \E c \in live : Begin(p, "sc_rlock", [NoFrame EXCEPT !.c = c])
    /\ UNCHANGED <<heap, rw, nextUUID, fatal, trace, hist>>
    /\ SnapUpdate

SubContext_RLock(p) ==
    /\ At(p, "sc_rlock")
    /\ RLock(p, fr[p].c)
    /\ Goto(p, "sc_new")
    /\ UNCHANGED <<heap, fr, nextUUID, fatal, trace, hist>>
    /\ SnapUpdate

SubContext_New(p) ==
    LET sub == alloc + 1 IN
    /\ At(p, "sc_new")
    /\ alloc' = sub
    /\ fields' = [fields EXCEPT ![sub] = SubFields(fr[p].c)]
    /\ privilege' = [privilege EXCEPT ![sub] = SubPrivilege(fr[p].c)]
    /\ props' = [props EXCEPT ![sub] = SubProps(fr[p].c)]
    /\ logProps' = [logProps EXCEPT ![sub] = SubLogProps(fr[p].c)]
    /\ fr' = [fr EXCEPT ![p].sub = sub]
    /\ Goto(p, "sc_loc")
    /\ UNCHANGED <<live, id, mapv, location>>
    /\ UNCHANGED <<rw, nextUUID, fatal, trace, hist>>
    /\ SnapUpdate

\* sub.SetLoc(ctx.GetLoc())
SubContext_SetLoc(p) ==
    /\ At(p, "sc_loc")
    /\ location' = [location EXCEPT ![fr[p].sub] = StoreLoc(@, GetLoc(fr[p].c))]
    /\ locSet' = locSet \cup {fr[p].sub}
    /\ stored' = [stored EXCEPT ![fr[p].sub] = [all |-> @.all \cup {GetLoc(fr[p].c)},
                                                 last |-> GetLoc(fr[p].c)]]
    /\ Goto(p, "sc_init")
    /\ UNCHANGED <<alloc, live, id, props, logProps, mapv, privilege, fields>>
    /\ UNCHANGED <<rw, fr, nextUUID, fatal, trace, lastAdd, inherited, lastGrant>>
    /\ SnapUpdate

\* sub.init()
SubContext_Init(p) ==
    /\ At(p, "sc_init")
    /\ id' = [id EXCEPT ![fr[p].sub] = InitId(nextUUID)]
    /\ nextUUID' = nextUUID + 1
    /\ logProps' = [logProps EXCEPT ![fr[p].sub] = InitMap(@, fr[p].sub, "logProps")]
    /\ props' = [props EXCEPT ![fr[p].sub] = InitMap(@, fr[p].sub, "props")]
    /\ Goto(p, "sc_props")
    /\ UNCHANGED <<alloc, live, mapv, privilege, location, fields>>
    /\ UNCHANGED <<rw, fr, fatal, trace, hist>>
    /\ SnapUpdate

\* One iteration of: for p, v := range ctx.props { sub.props[p] = v }
SubContext_CopyProp(p) ==
    /\ At(p, "sc_props")
    /\ \E k \in Remaining(props[fr[p].c], fr[p].done) :
        /\ mapv' = [mapv EXCEPT
                      ![props[fr[p].sub]] = MapSet(@, k, MapGet(props[fr[p].c], k))]
        /\ inherited' = [inherited EXCEPT
                           ![fr[p].sub] = (k :> MapGet(props[fr[p].c], k)) @@ @]
        /\ fr' = [fr EXCEPT ![p].done = @ \cup {k}]
    /\ ret' = NoRet
    /\ UNCHANGED <<pc, ncalls, budget>>
    /\ UNCHANGED <<alloc, live, id, props, logProps, privilege, location, fields>>
    /\ UNCHANGED <<rw, nextUUID, fatal, trace, lastAdd, locSet, stored, lastGrant>>
    /\ SnapUpdate

\* The props loop ends and the range over ctx.logProps begins.
SubContext_PropsDone(p) ==
    /\ At(p, "sc_props")
    /\ Remaining(props[fr[p].c], fr[p].done) = {}
    /\ StartAccess(p, [fr[p] EXCEPT !.done = {}], fr[p].c, FALSE)
    /\ Goto(p, "sc_logprops")
    /\ UNCHANGED <<heap, rw, nextUUID, fatal, trace, hist>>
    /\ SnapUpdate

\* One iteration of: for p, v := range ctx.logProps { sub.logProps[p] = v }
SubContext_CopyLogProp(p) ==
    /\ At(p, "sc_logprops")
    /\ \E k \in Remaining(logProps[fr[p].c], fr[p].done) :
        /\ mapv' = [mapv EXCEPT
                      ![logProps[fr[p].sub]] = MapSet(@, k, MapGet(logProps[fr[p].c], k))]
        /\ fr' = [fr EXCEPT ![p].done = @ \cup {k}]
    /\ ret' = NoRet
    /\ UNCHANGED <<pc, ncalls, budget>>
    /\ UNCHANGED <<alloc, live, id, props, logProps, privilege, location, fields>>
    /\ UNCHANGED <<rw, nextUUID, fatal, trace, hist>>
    /\ SnapUpdate

\* The logProps loop ends.  If a SetLogValue on the parent overlapped it, the
\* runtime may have thrown, or the copy may hold anything.
SubContext_LogPropsDone(p) ==
    /\ At(p, "sc_logprops")
    /\ Remaining(logProps[fr[p].c], fr[p].done) = {}
    /\ \/ /\ ~fr[p].raced
          /\ UNCHANGED <<mapv, fatal>>
       \/ /\ fr[p].raced
          /\ \E kv \in AnyPartOf(mapv[logProps[fr[p].sub]]) :
                mapv' = [mapv EXCEPT ![logProps[fr[p].sub]] = kv]
          /\ UNCHANGED fatal
       \/ /\ fr[p].raced
          /\ fatal' = TRUE
          /\ UNCHANGED mapv
    /\ fr' = [fr EXCEPT ![p].done = {}]
    /\ Goto(p, "sc_runlock")
    /\ UNCHANGED <<alloc, live, id, props, logProps, privilege, location, fields>>
    /\ UNCHANGED <<rw, nextUUID, trace, hist>>
    /\ SnapUpdate

\* ctx.RUnlock(); return sub.  In StartSpan the caller goes on with sub.
SubContext_RUnlock(p) ==
    /\ At(p, "sc_runlock")
    /\ RUnlock(p, fr[p].c)
    /\ \/ /\ ~fr[p].span
          /\ live' = live \cup {fr[p].sub}
          /\ Return(p, [NoRet EXCEPT !.op = "SubContext", !.c = fr[p].c,
                                     !.ctx = fr[p].sub])
       \/ /\ fr[p].span
          /\ Goto(p, "ss_tracer")
          /\ UNCHANGED <<live, fr>>
    /\ UNCHANGED <<alloc, id, props, logProps, mapv, privilege, location, fields>>
    /\ UNCHANGED <<nextUUID, fatal, trace, hist>>
    /\ SnapUpdate

\* ------------------------------------------------------ StartSpan, StopSpan
Call_StartSpan(p) ==
    /\ CanCall(p)
    /\ alloc + Pending < MaxCtx
    /\ \E c \in live, opName \in OpNames :
         Begin(p, "sc_rlock", [NoFrame EXCEPT !.c = c, !.k = opName, !.span = TRUE])
    /\ UNCHANGED <<heap, rw, nextUUID, fatal, trace, hist>>
    /\ SnapUpdate

\* A StartSpan that keeps the receiver and hands it to the tracer.
SpanContextParent(p) == fr[p].c

\* ctx = ctx.SubContext(): the context StartSpan goes on with.
SpanContext(p) == fr[p].sub

\* if ctx.Tracer != nil { ctx.Tracer.StartSpan(ctx, opName) }; return ctx
StartSpan_Tracer(p) ==
    /\ At(p, "ss_tracer")
    /\ tracerStart' =
         IF fields[SpanContext(p)].Tracer # NilTracer
         THEN [tracerStart EXCEPT ![SpanContext(p)] = Append(@, fr[p].k)]
         ELSE tracerStart
    /\ live' = live \cup {SpanContext(p)}
    /\ Return(p, [NoRet EXCEPT !.op = "StartSpan", !.c = fr[p].c, !.k = fr[p].k,
                               !.ctx = SpanContext(p)])
    /\ UNCHANGED <<alloc, id, props, logProps, mapv, privilege, location, fields>>
    /\ UNCHANGED <<rw, nextUUID, fatal, tracerStop, logged, hist>>
    /\ SnapUpdate

\* if ctx.Tracer != nil { ctx.Tracer.StopSpan(ctx) }
StopSpan(p) ==
    /\ CanCall(p)
    /\ \E c \in live :
        /\ tracerStop' =
             IF fields[c].Tracer # NilTracer
             THEN [tracerStop EXCEPT ![c] = @ + 1]
             ELSE tracerStop
        /\ ret' = [NoRet EXCEPT !.p = p, !.op = "StopSpan", !.c = c]
    /\ ncalls' = ncalls + 1
    /\ UNCHANGED budget
    /\ UNCHANGED <<heap, rw, nextUUID, fatal, pc, fr, tracerStart, logged, hist>>
    /\ SnapUpdate

\* -------------------------------------------------------------------- Log
\* The logger Log calls and what it passes it: DefaultLogger.Log(level, args)
\* when ctx or ctx.Logger is nil, ctx.Logger.Log(level, op, args) otherwise.
LogCall(c, level, op, args) ==
    IF c = NilContext \/ fields[c].Logger = NilLogger
    THEN [logger |-> "DefaultLogger", level |-> level, op |-> NoOp, args |-> args]
    ELSE [logger |-> fields[c].Logger, level |-> level, op |-> op, args |-> args]

\* The log output a call to a logger produces: BenchLogger is the no-op
\* logger and writes nothing; any other logger writes the record.
Output(call) == IF call.logger = "BenchLogger" THEN << >> ELSE <<call>>

\* ctx.Log(level, op, args...), ctx nil or not: one call to one logger.
Log(p) ==
    /\ CanCall(p)
    /\ \E c \in live \cup {NilContext}, level \in Levels, op \in OpNames, args \in Args :
        /\ logged' = Append(logged, LogCall(c, level, op, args))
        /\ ret' = [NoRet EXCEPT !.p = p, !.op = "Log", !.c = c, !.k = op,
                                !.val = level, !.args = args]
    /\ ncalls' = ncalls + 1
    /\ UNCHANGED budget
    /\ UNCHANGED <<heap, rw, nextUUID, fatal, pc, fr, tracerStart, tracerStop, hist>>
    /\ SnapUpdate

\* ---------------------------------------------------------- specification
PropSteps(p) ==
    Call_Prop(p) \/ Prop_RLock(p) \/ Prop_Read(p) \/ Prop_RUnlock(p)

AddPropSteps(p) ==
    \/ Call_AddProp(p) \/ AddProp_Lock(p) \/ AddProp_Locked(p)
    \/ AddProp_Write(p) \/ AddProp_Unlock(p)

grantPrivilegeSteps(p) ==
    \/ Call_grantPrivilege(p) \/ grantPrivilege_Lock(p) \/ grantPrivilege_Locked(p)
    \/ grantPrivilege_Write(p) \/ grantPrivilege_Unlock(p)

revokePrivilegeSteps(p) ==
    \/ Call_revokePrivilege(p) \/ revokePrivilege_Lock(p) \/ revokePrivilege_Locked(p)
    \/ revokePrivilege_Write(p) \/ revokePrivilege_Unlock(p)

isPrivilegedSteps(p) ==
    \/ Call_isPrivileged(p) \/ isPrivileged_RLock(p) \/ isPrivileged_Read(p)
    \/ isPrivileged_RUnlock(p)

SetLogValueSteps(p) == Call_SetLogValue(p) \/ SetLogValue_Write(p)

\* The steps of SubContext, alone or inside StartSpan.
ForkSteps(p) ==
    \/ SubContext_RLock(p) \/ SubContext_New(p)
    \/ SubContext_SetLoc(p) \/ SubContext_Init(p) \/ SubContext_CopyProp(p)
    \/ SubContext_PropsDone(p) \/ SubContext_CopyLogProp(p)
    \/ SubContext_LogPropsDone(p) \/ SubContext_RUnlock(p)

SubContextSteps(p) == Call_SubContext(p) \/ ForkSteps(p)

StartSpanSteps(p) == Call_StartSpan(p) \/ ForkSteps(p) \/ StartSpan_Tracer(p)

\* Every method, called by every goroutine on every published context.
Next ==
    \E p \in Procs :
        \/ PropSteps(p) \/ AddPropSteps(p)
        \/ grantPrivilegeSteps(p) \/ revokePrivilegeSteps(p) \/ isPrivilegedSteps(p)
        \/ SetLoc(p) \/ GetLoc_Call(p) \/ Id(p)
        \/ SetLogValueSteps(p)
        \/ SubContextSteps(p) \/ Call_StartSpan(p) \/ StartSpan_Tracer(p)
        \/ StopSpan(p) \/ Log(p)

Spec == Init /\ [][Next]_vars

\* The property store: Prop, AddProp, SetLogValue and SubContext.
InitProps == Root({NewContext(a) : a \in Prefixes}, {NilTracer}, MaxFocus)
NextProps ==
    \E p \in Procs :
        PropSteps(p) \/ AddPropSteps(p) \/ SetLogValueSteps(p) \/ SubContextSteps(p)
SpecProps == InitProps /\ [][NextProps]_vars

\* The privilege slot beside the property store and SubContext.
InitPriv == Root({NewContext(a) : a \in Prefixes}, {NilTracer}, MaxFocus)
NextPriv ==
    \E p \in Procs :
        \/ grantPrivilegeSteps(p) \/ revokePrivilegeSteps(p) \/ isPrivilegedSteps(p)
        \/ AddPropSteps(p) \/ SubContextSteps(p)
SpecPriv == InitPriv /\ [][NextPriv]_vars

\* The location slot and SubContext, the parent holding properties.
InitLoc == Root({NewContext(a) : a \in Prefixes}, {NilTracer}, MaxFocus)
NextLoc ==
    \E p \in Procs :
        SetLoc(p) \/ GetLoc_Call(p) \/ AddPropSteps(p) \/ SubContextSteps(p)
SpecLoc == InitLoc /\ [][NextLoc]_vars

\* Spans and ids: StartSpan, StopSpan, SubContext and Id, with AddProp.
InitSpan == Root(Constructed, {NilTracer, "T1"}, MaxCalls)
NextSpan ==
    \E p \in Procs :
        \/ StartSpanSteps(p) \/ StopSpan(p) \/ Call_SubContext(p) \/ Id(p)
        \/ AddPropSteps(p)
SpecSpan == InitSpan /\ [][NextSpan]_vars

\* Chains of forks of a context with or without collaborators attached.
InitCollab ==
    Root(Constructed \cup {WithCollaborators(o) : o \in Constructed},
         {NilTracer, "T1"}, MaxCalls)
NextCollab ==
    \E p \in Procs :
        StartSpanSteps(p) \/ Call_SubContext(p) \/ StopSpan(p) \/ AddPropSteps(p)
SpecCollab == InitCollab /\ [][NextCollab]_vars

\* The steps goroutine p takes inside a call it has begun, up to its return.
Running(p) ==
    \/ Prop_RLock(p) \/ Prop_Read(p) \/ Prop_RUnlock(p)
    \/ AddProp_Lock(p) \/ AddProp_Locked(p) \/ AddProp_Write(p) \/ AddProp_Unlock(p)
    \/ grantPrivilege_Lock(p) \/ grantPrivilege_Locked(p)
    \/ grantPrivilege_Write(p) \/ grantPrivilege_Unlock(p)
    \/ revokePrivilege_Lock(p) \/ revokePrivilege_Locked(p)
    \/ revokePrivilege_Write(p) \/ revokePrivilege_Unlock(p)
    \/ isPrivileged_RLock(p) \/ isPrivileged_Read(p) \/ isPrivileged_RUnlock(p)
    \/ ForkSteps(p) \/ StartSpan_Tracer(p)

\* The lock-guarded and lock-free methods on a shared context, a constructed
\* one or NoContext, every goroutine being scheduled again and again while it
\* can take a step.
InitLive == Root({NewContext(a) : a \in Prefixes} \cup {NoContext}, {NilTracer}, MaxCalls)
NextLive ==
    \E p \in Procs :
        \/ Call_Prop(p) \/ Call_AddProp(p) \/ Call_grantPrivilege(p)
        \/ Call_revokePrivilege(p) \/ Call_isPrivileged(p)
        \/ Call_SubContext(p) \/ Call_StartSpan(p)
        \/ SetLoc(p) \/ GetLoc_Call(p) \/ Id(p)
        \/ Running(p)
Fairness == \A p \in Procs : WF_vars(Running(p))
SpecLive == InitLive /\ [][NextLive]_vars /\ Fairness

\* Log on a context of any constructor, with a logger attached or not, on
\* its forks, and on a nil context.
InitLog ==
    Root(Constructed \cup {WithCollaborators(o) : o \in Constructed}, {NilTracer},
         MaxCalls)
NextLog == \E p \in Procs : Log(p) \/ SubContextSteps(p) \/ AddPropSteps(p)
SpecLog == InitLog /\ [][NextLog]_vars

\* The benchmark preset: Log on a context of BenchContext and on its forks.
InitBench == Root({BenchContext(a) : a \in Prefixes}, {NilTracer, "T1"}, MaxCalls)
NextBench ==
    \E p \in Procs :
        \/ \E c \in live : Log(p) /\ ret'.c = c
        \/ StartSpanSteps(p) \/ Call_SubContext(p) \/ AddPropSteps(p)
SpecBench == InitBench /\ [][NextBench]_vars

\* Readers, writers and forks of one constructed context and its forks.
InitFrame == Root({NewContext(a) : a \in Prefixes}, {NilTracer}, MaxCalls)
NextFrame ==
    \E p \in Procs :
        \/ PropSteps(p) \/ isPrivilegedSteps(p) \/ GetLoc_Call(p) \/ Id(p)
        \/ AddPropSteps(p) \/ grantPrivilegeSteps(p) \/ revokePrivilegeSteps(p)
        \/ SetLoc(p) \/ SubContextSteps(p)
SpecFrame == InitFrame /\ [][NextFrame]_vars

\* Every context the package makes available, NoContext included, under the
\* writers of the two maps and the forks.
InitAvail == Root(Constructed \cup {NoContext}, {NilTracer}, MaxCalls)
NextAvail ==
    \E p \in Procs :
        AddPropSteps(p) \/ SetLogValueSteps(p) \/ StartSpanSteps(p) \/ Call_SubContext(p)
SpecAvail == InitAvail /\ [][NextAvail]_vars

\* ------------------------------------------------------------------ claims
\* Steps of the model, as the claims name them.
Returns(op) == ret'.op = op
Writes(p, from, to) == pc[p] = from /\ pc'[p] = to

\* C1.  Fork copy and isolation of props and logProps.  When SubContext
\* returns, the child has for every key the value its parent has (for
\* logProps: when the copy loop ends, unless a SetLogValue on the parent
\* overlapped the loop).  A write by AddProp or SetLogValue to one context
\* changes no value of props or logProps of any other context: not of its
\* parent, its children or its siblings.
C1_Step ==
    /\ \A c, d \in Ctxs :
         (Returns("SubContext") /\ ret'.c = c /\ ret'.ctx = d) =>
            \A k \in Keys : Prop(d, k)' = Prop(c, k)'
    /\ \A p \in Procs :
         (Writes(p, "sc_logprops", "sc_runlock") /\ ~fr[p].raced) =>
            \A k \in LogKeys : LogValue(fr[p].sub, k)' = LogValue(fr[p].c, k)'
    /\ \A p \in Procs :
         (Writes(p, "add_write", "add_unlock") \/ Writes(p, "slv_write", "idle")) =>
            \A d \in Ctxs \ {fr[p].c} :
                /\ \A k \in Keys : Prop(d, k)' = Prop(d, k)
                /\ \A k \in LogKeys : LogValue(d, k)' = LogValue(d, k)
C1_ForkCopyIsolation == [][C1_Step]_vars

\* C1 witness: two children forked from a parent holding k1 = v1 both copied
\* it; one child has just overwritten it with v2; the parent and the other
\* child still hold v1, and the same for a logProps entry.
C1_Witness ==
    \E c, d, e \in live :
        /\ c # d /\ c # e /\ d # e
        /\ "k1" \in DOMAIN inherited[d] /\ inherited[d]["k1"] = "v1"
        /\ "k1" \in DOMAIN inherited[e] /\ inherited[e]["k1"] = "v1"
        /\ ret.op = "AddProp" /\ ret.c = d
        /\ Prop(d, "k1") = "v2"
        /\ Prop(c, "k1") = "v1"
        /\ Prop(e, "k1") = "v1"

\* C2.  Fork takes a consistent snapshot.  While other goroutines call
\* AddProp, grantPrivilege and revokePrivilege on the parent, the props and
\* the privilege a SubContext has given its child are, together, what the
\* parent had at one instant since SubContext was called.
C2_ConsistentSnapshot ==
    \A p \in Procs :
        pc[p] = "sc_runlock" =>
            <<mapv[props[fr[p].sub]], privilege[fr[p].sub]>> \in snap[p]

\* C2 witness: a fork about to return whose parent went through three
\* different (props, privilege) since the call, the child holding a property
\* and a privilege.
C2_Witness ==
    \E p \in Procs :
        /\ pc[p] = "sc_runlock"
        /\ Cardinality(snap[p]) >= 3
        /\ mapv[props[fr[p].sub]] # Empty
        /\ privilege[fr[p].sub] # EmptyString

\* C3.  No lost update in the property store.  Whatever the interleaving of
\* concurrent AddProp calls, every key written holds the value of the last
\* write to that key (with pairwise distinct keys: its one write), and no
\* goroutine is at its write of c.props while another is at an access of it
\* (the write of AddProp, the read of Prop, the copy loop of SubContext).
AtPropsWrite(p, c) == pc[p] = "add_write" /\ fr[p].c = c
AtPropsAccess(p, c) == pc[p] \in {"add_write", "prop_read", "sc_props"} /\ fr[p].c = c
C3_NoLostUpdate ==
    /\ \A c \in live : \A k \in DOMAIN lastAdd[c] : Prop(c, k) = lastAdd[c][k]
    /\ \A c \in Ctxs : \A p, q \in Procs :
         p # q => ~(AtPropsWrite(p, c) /\ AtPropsAccess(q, c))

\* C3 witness: two goroutines are in AddProp on the same context with
\* different keys at once: one has written its key and still holds the
\* lock, the other has called and waits for it.
C3_Witness ==
    \E p, q \in Procs :
        /\ pc[p] = "add_unlock" /\ pc[q] = "add_lock"
        /\ fr[p].c = fr[q].c /\ fr[p].k # fr[q].k
        /\ Prop(fr[p].c, fr[p].k) = fr[p].v
        /\ lastAdd[fr[p].c] = (fr[p].k :> fr[p].v)

\* C4 as stated.  Every Prop(k) returns the value of the AddProp(k, _) on
\* that context whose write section completed last before the read, or nil
\* if there is none.
C4_Stated ==
    ret.op = "Prop" =>
        ret.val = IF ret.k \in DOMAIN lastAdd[ret.c] THEN lastAdd[ret.c][ret.k] ELSE Nil

\* C4, amended.  Every Prop(k) returns the value of the AddProp(k, _) on that
\* context whose write section completed last before the read (of two
\* concurrent ones, the one that took the write lock last); if there is none,
\* the value SubContext copied into the context from its parent, and nil if
\* it copied none.
C4_LastWriterWins ==
    ret.op = "Prop" =>
        ret.val = IF ret.k \in DOMAIN lastAdd[ret.c] THEN lastAdd[ret.c][ret.k]
                  ELSE IF ret.k \in DOMAIN inherited[ret.c] THEN inherited[ret.c][ret.k]
                  ELSE Nil

\* C4 witness: Prop returns v2 on a forked context that copied v1 for the key
\* from its parent and then had v2 written by AddProp.
C4_Witness ==
    /\ ret.op = "Prop" /\ ret.val = "v2"
    /\ ret.k \in DOMAIN inherited[ret.c] /\ inherited[ret.c][ret.k] = "v1"
    /\ ret.k \in DOMAIN lastAdd[ret.c] /\ lastAdd[ret.c][ret.k] = "v2"

\* C5 as stated.  For all region strings R # R2 (the empty string is one):
\* the write of grantPrivilege(R) leaves isPrivileged(R) true and, when it
\* follows a grantPrivilege(R0) with no revoke between, isPrivileged(R0)
\* false for R0 # R; the write of a revokePrivilege that follows
\* grantPrivilege(R) leaves isPrivileged(R) false.
C5_Step ==
    \A p \in Procs : \A c \in Ctxs :
        /\ (Writes(p, "gr_write", "gr_unlock") /\ fr[p].c = c) =>
              /\ isPrivileged(c, fr[p].k)'
              /\ \A R0 \in Regions \ {fr[p].k} : ~isPrivileged(c, R0)'
        /\ (Writes(p, "rv_write", "rv_unlock") /\ fr[p].c = c) =>
              \A R \in Regions : lastGrant[c] = R => ~isPrivileged(c, R)'
C5_SingleSlot == [][C5_Step]_vars

\* C6 as stated.  Before any call, the context a constructor returned has no
\* property, no location, logProps holding exactly appId = prefix, and
\* isPrivileged(r) false for every region string r, the empty string included.
C6_FreshContext ==
    ncalls = 0 =>
        \A c \in live :
            /\ \A k \in Keys : Prop(c, k) = Nil
            /\ GetLoc(c) = Nil
            /\ \E a \in Prefixes : mapv[logProps[c]] = ("appId" :> a)
            /\ \A r \in Regions : ~isPrivileged(c, r)

\* C7.  Privilege is local to a context instance.  The child SubContext
\* returns has the privilege its parent has at that moment; a write by
\* grantPrivilege or revokePrivilege on one context changes isPrivileged on
\* no other context, parent or child.
C7_Step ==
    /\ \A c, d \in Ctxs :
         (Returns("SubContext") /\ ret'.c = c /\ ret'.ctx = d) =>
            \A r \in Regions : isPrivileged(d, r)' = isPrivileged(c, r)'
    /\ \A p \in Procs :
         (Writes(p, "gr_write", "gr_unlock") \/ Writes(p, "rv_write", "rv_unlock")) =>
            \A d \in Ctxs \ {fr[p].c} : \A r \in Regions :
                isPrivileged(d, r)' = isPrivileged(d, r)
C7_PrivilegeLocal == [][C7_Step]_vars

\* C7 witness: a child forked while R was granted on the root, on which no
\* grantPrivilege was ever called, still has R after the root's privilege
\* has been revoked.
C7_Witness ==
    /\ ret.op = "revokePrivilege" /\ ret.c = 1
    /\ 2 \in live
    /\ lastGrant[2] = NoGrant
    /\ isPrivileged(2, "R")
    /\ ~isPrivileged(1, "R")

\* C8.  Location slot round trip and fork independence.  After SetLoc(L),
\* which returns L, GetLoc on that context gives L; GetLoc on a context
\* SetLoc was never called on returns nil; SubContext stores in the child
\* what GetLoc gives on the parent at that moment (nil when it has none),
\* and nothing fails; a context's location changes only by a SetLoc on it
\* (the caller's, or SubContext's on the child it is making), so a SetLoc on
\* parent or child never changes what GetLoc returns on the other.
C8_Step ==
    /\ \A c \in Ctxs :
         (Returns("SetLoc") /\ ret'.c = c) =>
            /\ GetLoc(c)' = ret'.val
            /\ \A d \in Ctxs \ {c} : GetLoc(d)' = GetLoc(d)
    /\ (Returns("GetLoc") /\ ret'.c \notin locSet) => ret'.val = Nil
    /\ \A p \in Procs :
         Writes(p, "sc_loc", "sc_init") =>
            /\ GetLoc(fr[p].sub)' = GetLoc(fr[p].c)
            /\ \A d \in Ctxs \ {fr[p].sub} : GetLoc(d)' = GetLoc(d)
    /\ \A d \in Ctxs :
         location'[d] # location[d] =>
            \/ Returns("SetLoc") /\ ret'.c = d
            \/ \E p \in Procs : Writes(p, "sc_loc", "sc_init") /\ fr[p].sub = d
    /\ ~fatal'
C8_LocationSlot == [][C8_Step]_vars

\* C8 witness: a fork has stored L1, its parent's location at that moment,
\* in the child it is still making, and the parent has since been set to L2.
C8_Witness ==
    \E p \in Procs :
        /\ pc[p] \in {"sc_init", "sc_props", "sc_logprops", "sc_runlock"}
        /\ GetLoc(fr[p].sub) = "L1"
        /\ GetLoc(fr[p].c) = "L2"

\* C9.  Span pairing.  StartSpan returns a context that did not exist
\* before, with an id other than the receiver's; when the receiver has a
\* tracer, Tracer.StartSpan has been called exactly once with that child,
\* with the op name given, and with no other context; no step of StartSpan
\* changes a field of the receiver; StopSpan calls Tracer.StopSpan exactly
\* once with its receiver when it has a tracer; with no tracer neither calls
\* anything; StopSpan allocates nothing and changes no context.
StepOf(p) == pc'[p] # pc[p] \/ fr'[p] # fr[p]
Unmodified(c) ==
    /\ id'[c] = id[c] /\ props'[c] = props[c] /\ logProps'[c] = logProps[c]
    /\ props[c] # NilRef => mapv'[props[c]] = mapv[props[c]]
    /\ logProps[c] # NilRef => mapv'[logProps[c]] = mapv[logProps[c]]
    /\ privilege'[c] = privilege[c] /\ location'[c] = location[c]
    /\ fields'[c] = fields[c]
    /\ tracerStart'[c] = tracerStart[c] /\ tracerStop'[c] = tracerStop[c]
C9_Step ==
    /\ \A c, d \in Ctxs :
         (Returns("StartSpan") /\ ret'.c = c /\ ret'.ctx = d) =>
            /\ d # c /\ d \notin live /\ d \in live'
            /\ id'[d] # id'[c]
            /\ tracerStart'[d] = IF fields[c].Tracer # NilTracer THEN <<ret'.k>> ELSE << >>
            /\ tracerStop'[d] = 0
            /\ \A e \in Ctxs \ {d} : tracerStart'[e] = tracerStart[e]
    /\ \A p \in Procs :
         (fr[p].span /\ StepOf(p)) => Unmodified(fr[p].c)
    /\ \A c \in Ctxs :
         (Returns("StopSpan") /\ ret'.c = c) =>
            /\ tracerStop'[c] = tracerStop[c] + IF fields[c].Tracer # NilTracer THEN 1 ELSE 0
            /\ \A e \in Ctxs \ {c} : tracerStop'[e] = tracerStop[e]
            /\ tracerStart' = tracerStart
            /\ heap' = heap
    /\ tracerStart' # tracerStart => Returns("StartSpan")
    /\ tracerStop' # tracerStop => Returns("StopSpan")
    /\ \A c \in Ctxs : Len(tracerStart'[c]) <= 1
C9_SpanPairing == [][C9_Step]_vars

\* C9 witness: a child made by StartSpan("op2") on a context with a tracer,
\* on which StopSpan has now returned for the second time.
C9_Witness ==
    /\ ret.op = "StopSpan"
    /\ tracerStart[ret.c] = <<"op2">>
    /\ tracerStop[ret.c] = 2

\* C10.  Id uniqueness, the id generator returning a fresh value on every
\* call.  Every context init has run on (those returned by a constructor,
\* SubContext or StartSpan, and those a fork has initialised and is still
\* filling) has a non-empty id, no two of them have the same id, the context
\* SubContext or StartSpan returns has not the id of its parent, and Id
\* returns the id.
Initialised ==
    live \cup {fr[p].sub : p \in {q \in Procs :
                  pc[q] \in {"sc_props", "sc_logprops", "sc_runlock", "ss_tracer"}}}
C10_IdUnique ==
    /\ \A c \in Initialised : id[c] # << >>
    /\ \A c, d \in Initialised : c # d => id[c] # id[d]
    /\ ret.op \in {"SubContext", "StartSpan"} => id[ret.ctx] # id[ret.c]
    /\ ret.op = "Id" => ret.id = id[ret.c] /\ ret.id # << >>

\* C10 witness: two goroutines fork the same parent at once, both children
\* initialised and neither returned yet.
C10_Witness ==
    \E p, q \in Procs :
        /\ p # q
        /\ pc[p] = "sc_runlock" /\ pc[q] = "sc_runlock"
        /\ fr[p].c = fr[q].c

\* C11 as stated.  Every context the package makes available (returned by a
\* constructor, SubContext or StartSpan, or the package-level NoContext) has
\* non-nil props and logProps in every reachable state, and no AddProp or
\* SetLogValue on one fails.
C11_MapsNonNil ==
    /\ \A c \in live : props[c] # NilRef /\ logProps[c] # NilRef
    /\ ret.op # "panic"

\* C12.  Collaborators are shared by a context and all its descendants.  In
\* every reachable state every context allocated (all descend from the root
\* by chains of SubContext and StartSpan, those still being made included)
\* has the Logger, Tracer, App, LogHook, PointHook and LogAccumulator of the
\* root, hence of each of its ancestors.
Collaborators(c) ==
    [Logger |-> fields[c].Logger, Tracer |-> fields[c].Tracer, App |-> fields[c].App,
     LogHook |-> fields[c].LogHook, PointHook |-> fields[c].PointHook,
     LogAccumulator |-> fields[c].LogAccumulator]
AllIdle == \A p \in Procs : pc[p] = "idle"
LocksFree == \A c \in Ctxs : rw[c].w = {} /\ rw[c].r = {}
Deadlocked ==
    /\ \E p \in Procs : pc[p] # "idle"
    /\ \A p \in Procs : ~ENABLED Running(p)
C13_NoBlocking ==
    /\ [](AllIdle => LocksFree)
    /\ []~Deadlocked
    /\ \A p \in Procs : (pc[p] # "idle") ~> (pc[p] = "idle")

\* C14 as stated.  Every Log call makes exactly one call to a logger:
\* DefaultLogger when ctx is nil or has no Logger, ctx.Logger otherwise, and
\* no call to any other; the logger called receives the caller's level,
\* operation name and arguments; Log changes no context and takes no lock.
C14_Step ==
    Returns("Log") =>
        LET call == logged'[Len(logged')] IN
        /\ Len(logged') = Len(logged) + 1
        /\ SubSeq(logged', 1, Len(logged)) = logged
        /\ call.logger = IF ret'.c = NilContext \/ fields[ret'.c].Logger = NilLogger
                         THEN "DefaultLogger" ELSE fields[ret'.c].Logger
        /\ call.level = ret'.val
        /\ call.op = ret'.k
        /\ call.args = ret'.args
        /\ heap' = heap /\ rw' = rw
C14_LogResolves == [][C14_Step]_vars

\* C15.  Benchmark preset.  The context BenchContext returns and every
\* context forked from it by SubContext or StartSpan has Verbosity NOTHING,
\* LogAccumulatorLevel NOTHING and BenchLogger attached; every Log on one of
\* them, at any level, calls BenchLogger and never DefaultLogger, and
\* produces no log output.
C15_BenchPreset ==
    /\ \A c \in 1..alloc :
         /\ fields[c].Verbosity = "NOTHING"
         /\ fields[c].LogAccumulatorLevel = "NOTHING"
         /\ fields[c].Logger = "BenchLogger"
    /\ \A i \in 1..Len(logged) :
         /\ logged[i].logger = "BenchLogger"
         /\ Output(logged[i]) = << >>
    /\ ret.op = "Log" => Len(logged) >= 1 /\ logged[Len(logged)].level = ret.val

\* C15 witness: a Log at level ANYWARN has returned on the second context, a
\* fork, after one on the root at level NOTHING.
C15_Witness ==
    /\ ret.op = "Log" /\ ret.c = 2 /\ ret.val = "ANYWARN"
    /\ Len(logged) = 2 /\ logged[1].level = "NOTHING"

\* C16.  Frame conditions.  No step of Prop, isPrivileged, GetLoc (Location)
\* or Id changes a field of any context, and at its return the lock is as it
\* would be without the call; Prop returns nil for a missing key; no step of
\* SubContext changes a field of the parent or of any context but the child
\* being made; AddProp changes props[k] of its receiver and nothing else;
\* grantPrivilege and revokePrivilege change the privilege of their receiver
\* and nothing else; SetLoc changes the location of its receiver and nothing
\* else; an id, once assigned, never changes.
ReadPcs == {"prop_rlock", "prop_read", "prop_runlock",
            "ip_rlock", "ip_read", "ip_runlock"}
WritePcs == {"add_lock", "add_wait", "add_write", "add_unlock",
             "gr_lock", "gr_wait", "gr_write", "gr_unlock",
             "rv_lock", "rv_wait", "rv_write", "rv_unlock"}
OnlyChanged(changed) ==
    /\ "mapv" \in changed \/ mapv' = mapv
    /\ "privilege" \in changed \/ privilege' = privilege
    /\ "location" \in changed \/ location' = location
    /\ <<alloc, live, id, props, logProps, fields>>' = <<alloc, live, id, props, logProps, fields>>
C16_Step ==
    /\ \A c \in Ctxs : id[c] # << >> => id'[c] = id[c]
    /\ \A p \in Procs :
         (StepOf(p) /\ (pc[p] \in ReadPcs \/ pc'[p] \in ReadPcs)) => heap' = heap
    /\ \A c \in Ctxs :
         (Returns("Prop") \/ Returns("isPrivileged")) /\ ret'.c = c =>
            /\ ret'.p \notin rw'[c].r
            /\ rw'[c].w = rw[c].w
            /\ (Returns("Prop") /\ ret'.k \notin DOMAIN mapv[props[c]]) => ret'.val = Nil
    /\ (Returns("GetLoc") \/ Returns("Id")) => heap' = heap /\ rw' = rw
    /\ \A p \in Procs :
         (StepOf(p) /\ pc[p] \in ForkPcs) =>
            \A c \in 1..alloc : c # fr[p].sub => Unmodified(c)
    /\ \A p \in Procs :
         (StepOf(p) /\ (pc[p] \in WritePcs \/ pc'[p] \in WritePcs)) =>
            LET c == IF pc[p] = "idle" THEN fr'[p].c ELSE fr[p].c IN
            IF Writes(p, "add_write", "add_unlock") THEN
                /\ OnlyChanged({"mapv"})
                /\ \A r \in Refs \ {props[c]} : mapv'[r] = mapv[r]
                /\ mapv'[props[c]][fr[p].k] = fr[p].v
                /\ DOMAIN mapv'[props[c]] = DOMAIN mapv[props[c]] \cup {fr[p].k}
                /\ \A x \in DOMAIN mapv[props[c]] \ {fr[p].k} :
                      mapv'[props[c]][x] = mapv[props[c]][x]
            ELSE IF Writes(p, "gr_write", "gr_unlock") \/ Writes(p, "rv_write", "rv_unlock")
            THEN
                /\ OnlyChanged({"privilege"})
                /\ \A d \in Ctxs \ {c} : privilege'[d] = privilege[d]
            ELSE heap' = heap
    /\ \A c \in Ctxs :
         (Returns("SetLoc") /\ ret'.c = c) =>
            /\ OnlyChanged({"location"})
            /\ \A d \in Ctxs \ {c} : location'[d] = location[d]
            /\ rw' = rw
C16_FrameConditions == [][C16_Step]_vars

\* C16 witness: AddProp has written k2 = v2 into props that already held
\* k1 = v1 and still holds the lock, and an Id on that context has just
\* returned.
C16_Witness ==
    /\ ret.op = "Id" /\ ret.c = 1
    /\ \E p \in Procs :
         /\ pc[p] = "add_unlock" /\ fr[p].c = 1 /\ fr[p].k = "k2"
         /\ Prop(1, "k1") = "v1" /\ Prop(1, "k2") = "v2"

\* C17.  Reader/writer exclusion on each context's lock.  At most one
\* goroutine is inside the write section of AddProp, grantPrivilege or
\* revokePrivilege on a context, and while one is, none is inside the read
\* section of Prop, isPrivileged or SubContext on that context.  The locks of
\* different contexts are independent: a goroutine about to take the lock of
\* a context can do so whenever nobody holds or awaits that lock for
\* writing (a reader), or holds it at all (a writer), whatever is held on
\* other contexts.
InWriteSection(p, c) ==
    fr[p].c = c /\ pc[p] \in {"add_write", "add_unlock", "gr_write", "gr_unlock",
                             "rv_write", "rv_unlock"}
InReadSection(p, c) ==
    fr[p].c = c /\ pc[p] \in {"prop_read", "prop_runlock", "ip_read", "ip_runlock",
                             "sc_new", "sc_loc", "sc_init", "sc_props",
                             "sc_logprops", "sc_runlock"}
C17_Exclusion ==
    /\ \A c \in Ctxs : \A p, q \in Procs :
         (p # q /\ InWriteSection(p, c)) =>
            ~InWriteSection(q, c) /\ ~InReadSection(q, c)
    /\ \A q \in Procs :
         /\ (pc[q] \in {"prop_rlock", "ip_rlock", "sc_rlock", "add_lock", "gr_lock", "rv_lock"}
             /\ rw[fr[q].c].w = {}) => ENABLED Running(q)
         /\ (pc[q] \in {"add_wait", "gr_wait", "rv_wait"} /\ rw[fr[q].c].r = {})
               => ENABLED Running(q)

\* C17 witness: one goroutine is inside the write section of AddProp on the
\* root while another is inside the copy loop of SubContext on a fork of it.
C17_Witness ==
    \E p, q \in Procs :
        /\ InWriteSection(p, 1) /\ pc[p] = "add_write"
        /\ InReadSection(q, 2) /\ pc[q] = "sc_props"

\* C18.  SetLogValue is not lock-guarded.  Its write is never blocked,
\* whoever holds the context's lock, and it takes and releases no lock; a
\* SetLogValue that overlapped no other access to logProps writes exactly
\* logProps[name] = val; a SubContext whose copy of logProps overlapped no
\* SetLogValue on the parent leaves the child with the parent's logProps; and
\* the runtime throws only after an overlap.
C18_Step ==
    /\ \A p \in Procs :
         (pc[p] = "slv_write" /\ ~fatal) =>
            /\ ENABLED SetLogValue_Write(p)
            /\ \A c \in Ctxs : p \notin rw[c].r \cup rw[c].w
    /\ \A p \in Procs :
         (StepOf(p) /\ (pc[p] = "slv_write" \/ pc'[p] = "slv_write")) => rw' = rw
    /\ \A p \in Procs :
         (Writes(p, "slv_write", "idle") /\ ~fr[p].raced) =>
            /\ mapv'[logProps[fr[p].c]] =
                 [x \in DOMAIN mapv[logProps[fr[p].c]] \cup {fr[p].k} |->
                    IF x = fr[p].k THEN fr[p].v ELSE mapv[logProps[fr[p].c]][x]]
            /\ ~fatal'
    /\ \A p \in Procs :
         (Writes(p, "sc_logprops", "sc_runlock") /\ ~fr[p].raced) =>
            /\ mapv'[logProps[fr[p].sub]] = mapv[logProps[fr[p].c]]
            /\ mapv'[logProps[fr[p].c]] = mapv[logProps[fr[p].c]]
            /\ ~fatal'
    /\ (fatal' /\ ~fatal) => \E p \in Procs : fr[p].raced
C18_SetLogValueUnguarded == [][C18_Step]_vars

\* C18 witness: a SetLogValue is at its write of logProps while another
\* goroutine holds the write lock of the same context inside AddProp, after a
\* SubContext whose copy loop a SetLogValue overlapped left the child without
\* the parent's appId entry.
C18_Witness ==
    \E p, q \in Procs :
        /\ pc[p] = "slv_write" /\ pc[q] = "add_write" /\ fr[p].c = 1 /\ fr[q].c = 1
        /\ q \in rw[1].w
        /\ 2 \in live /\ "appId" \notin DOMAIN mapv[logProps[2]]
        /\ "appId" \in DOMAIN mapv[logProps[1]]

\* C19.  The location slot under concurrency.  GetLoc and SetLoc take no
\* lock: a GetLoc can return in any state in which a call can begin, whoever
\* holds the context's lock, and neither changes a lock.  Every GetLoc
\* returns nil if no SetLoc has stored in the context yet, and else exactly
\* the value of the SetLoc whose store took effect last, which is a value
\* passed to a SetLoc on that context.
LastStored(c) == IF stored[c].all = {} THEN Nil ELSE stored[c].last
C19_Step ==
    /\ \A p \in Procs : CanCall(p) => ENABLED GetLoc_Call(p)
    /\ (Returns("GetLoc") \/ Returns("SetLoc")) => rw' = rw
    /\ \A c \in Ctxs :
         (Returns("GetLoc") /\ ret'.c = c) =>
            /\ ret'.val = LastStored(c)
            /\ ret'.val \in stored[c].all \/ (stored[c].all = {} /\ ret'.val = Nil)
    /\ \A c \in Ctxs : GetLoc(c)' = LastStored(c)'
C19_LastWriterWins == [][C19_Step]_vars

\* C19 witness: GetLoc has returned L2 on the root, on which SetLoc stored
\* L1 and then L2, while another goroutine is inside the write section of
\* AddProp on the root, holding its lock.
C19_Witness ==
    /\ ret.op = "GetLoc" /\ ret.c = 1 /\ ret.val = "L2"
    /\ stored[1] = [all |-> {"L1", "L2"}, last |-> "L2"]
    /\ \E q \in Procs : pc[q] = "add_write" /\ fr[q].c = 1 /\ q \in rw[1].w

\* C20.  Tracer callbacks run with no core lock held.  A goroutine at the
\* point where StartSpan calls Tracer.StartSpan(child, op), or where StopSpan
\* calls Tracer.StopSpan(ctx) (it has begun no other call), holds no lock of
\* any context: the read lock SubContext took on the parent is released.
\* Nobody holds the lock of the child, and whoever holds or awaits a lock at
\* that moment can go on without the goroutine in the callback, so a method
\* the tracer calls on the child or on the parent gets its lock.
HoldsNoLock(p) == \A c \in Ctxs : p \notin rw[c].r \cup rw[c].w
C20_NoLockInCallback ==
    \A p \in Procs :
        /\ pc[p] \in {"idle", "ss_tracer"} => HoldsNoLock(p)
        /\ pc[p] = "ss_tracer" =>
              /\ rw[fr[p].sub].w = {} /\ rw[fr[p].sub].r = {}
              /\ \A c \in Ctxs :
                    rw[c].w \cup rw[c].r # {} =>
                       \E q \in (rw[c].w \cup rw[c].r) \ {p} : ENABLED Running(q)

\* C20 witness: a goroutine is about to call Tracer.StartSpan with the child
\* while another is inside the write section of AddProp on the parent,
\* holding the parent's lock.
C20_Witness ==
    \E p, q \in Procs :
        /\ pc[p] = "ss_tracer" /\ fields[fr[p].sub].Tracer = "T1"
        /\ pc[q] = "add_write" /\ fr[q].c = fr[p].c /\ q \in rw[fr[p].c].w

====
